---- MODULE Spec2Model ----
(***************************************************************************)
(* SiCDS: the in-memory duplicate store and the loggers of sicds/base.py,  *)
(* and the URL-style component resolution and configuration of             *)
(* sicds/config.py.                                                        *)
(***************************************************************************)
EXTENDS Integers, Sequences, FiniteSets, TLC

\* ------------------------------------------------------------------------
\* Bounds
\* ------------------------------------------------------------------------
\* longest Attribute Set (number of difs in one request)
MaxLen == 2
\* number of recorded add/clear calls in one run of the store
MaxOps == 2
\* number of concurrent request handlers sharing the store
NumCallers == 3
\* number of objects direct resolver calls may construct
MaxObjs == 2
\* number of SiCDSConfig objects constructed in one run
MaxConfigs == 2
\* number of log entries kept by all loggers together
MaxEntries == 2
\* last reading of the clock
MaxTime == 1
MaxClears == 1

None == "None"

\* ------------------------------------------------------------------------
\* Attribute Sets (difs)
\* ------------------------------------------------------------------------
\* a dif is an object with fields type and value
Difs ==
    { [type |-> "phone", value |-> "555-1111"],
      [type |-> "email", value |-> "a@b.com"] }

\* the sequences of difs a request can carry
AttrSets == UNION { [1..n -> Difs] : n \in 0..MaxLen }

Callers == 1..NumCallers

VARIABLES
    db,       \* TmpDifStore.db: the set of canonical tuples
    oplog,    \* history: the add / clear calls made on the store, in order
    ret,      \* history: the last store call and, for contains, its answer
    pc,       \* per request handler: "start", "checked" or "done"
    carg,     \* per request handler: the Attribute Set it submits
    seen,     \* per request handler: what its contains test returned
    heap,     \* the component and list objects constructed so far; an
              \* object's identity is its index
    configs,  \* the SiCDSConfig objects constructed so far
    cret,     \* history: the last resolver call and its outcome
    entries,  \* TmpLogger._entries
    written,  \* what FileLogger and StdOutLogger wrote to their files
    now,      \* the clock datetime.utcnow() reads
    lret      \* history: the last logger call and how it ended

storeVars == <<db, oplog, ret>>
raceVars == <<pc, carg, seen>>
configVars == <<heap, configs, cret>>
logVars == <<entries, written, now, lret>>
vars ==
    <<db, oplog, ret, pc, carg, seen, heap, configs, cret, entries, written,
      now, lret>>

\* ------------------------------------------------------------------------
\* TmpDifStore
\* ------------------------------------------------------------------------
\* a mutant of _sleep: the pairs are sorted by type before they are stored
_sleep_sorted(difs) ==
    LET pairs == [i \in 1..Len(difs) |-> <<difs[i].type, difs[i].value>>]
        IsEmail(p) == p[1] = "email"
        IsPhone(p) == p[1] = "phone"
    IN  SelectSeq(pairs, IsEmail) \o SelectSeq(pairs, IsPhone)

\* tuple((dif.type, dif.value) for dif in difs)
_sleep(difs) ==
    [i \in 1..Len(difs) |-> <<difs[i].type, difs[i].value>>]

\* self._sleep(difs) in self.db
__contains__(store, difs) == _sleep(difs) \in store

\* a mutant of add: a second add of a recorded tuple removes it
add_toggle(store, difs) ==
    IF _sleep(difs) \in store THEN store \ {_sleep(difs)}
    ELSE store \cup {_sleep(difs)}

\* a mutant of add: the new tuple replaces what was recorded
add_replace(store, difs) == {_sleep(difs)}

\* a mutant of add: every prefix of the tuple is recorded with it
add_prefixes(store, difs) ==
    store \cup { SubSeq(_sleep(difs), 1, n) : n \in 0..Len(difs) }

\* self.db.add(self._sleep(difs))
add(store, difs) == store \cup {_sleep(difs)}

\* a mutant of clear: leaves the set as it is
clear_keep(store) == store

\* a mutant of clear: the call ends after removing one member
clear_partial(store) ==
    IF store = {} THEN {} ELSE store \ {CHOOSE t \in store : TRUE}

\* self.db.clear()
clear(store) == {}

TmpDifStoreInit ==
    /\ db = {}
    /\ oplog = <<>>
    /\ ret = [op |-> "init", arg |-> <<>>, result |-> FALSE]

Contains(difs) ==
    /\ ret' = [op |-> "contains", arg |-> difs, result |-> __contains__(db, difs)]
    /\ UNCHANGED <<db, oplog>>
    /\ UNCHANGED <<raceVars, configVars, logVars>>

Add(difs) ==
    /\ Len(oplog) < MaxOps
    /\ db' = add(db, difs)
    /\ oplog' = Append(oplog, [op |-> "add", arg |-> difs])
    /\ ret' = [op |-> "add", arg |-> difs, result |-> FALSE]
    /\ UNCHANGED <<raceVars, configVars, logVars>>

Clear ==
    /\ Len(oplog) < MaxOps
    /\ db' = clear(db)
    /\ oplog' = Append(oplog, [op |-> "clear", arg |-> <<>>])
    /\ ret' = [op |-> "clear", arg |-> <<>>, result |-> FALSE]
    /\ UNCHANGED <<raceVars, configVars, logVars>>

\* ------------------------------------------------------------------------
\* Concurrent request handlers: each tests contains, then adds
\* ------------------------------------------------------------------------
RaceInit ==
    /\ pc = [c \in Callers |-> "start"]
    /\ carg = [c \in Callers |-> <<>>]
    /\ seen = [c \in Callers |-> FALSE]

\* a handler's contains test: difs in store
CallerCheck(c, difs) ==
    /\ pc[c] = "start"
    /\ seen' = [seen EXCEPT ![c] = __contains__(db, difs)]
    /\ carg' = [carg EXCEPT ![c] = difs]
    /\ pc' = [pc EXCEPT ![c] = "checked"]
    /\ ret' = [op |-> "contains", arg |-> difs, result |-> __contains__(db, difs)]
    /\ UNCHANGED <<db, oplog>>
    /\ UNCHANGED <<configVars, logVars>>

\* the handler's add, made when its test said the set was new
CallerInsert(c) ==
    /\ pc[c] = "checked"
    /\ pc' = [pc EXCEPT ![c] = "done"]
    /\ IF ~seen[c]
       THEN /\ db' = add(db, carg[c])
            /\ oplog' = Append(oplog, [op |-> "add", arg |-> carg[c]])
            /\ ret' = [op |-> "add", arg |-> carg[c], result |-> FALSE]
       ELSE UNCHANGED <<db, oplog, ret>>
    /\ UNCHANGED <<carg, seen>>
    /\ UNCHANGED <<configVars, logVars>>

\* the Attribute Sets the handlers submit while the store is being cleared
Submitted == { difs \in AttrSets : Len(difs) = 1 }

Clears == Cardinality({ i \in 1..Len(oplog) : oplog[i].op = "clear" })

\* clear() called while handlers are between their test and their add:
\* set.clear() is one call of the interpreter, made under its lock
AdminClear ==
    /\ Clears < MaxClears
    /\ db' = clear(db)
    /\ oplog' = Append(oplog, [op |-> "clear", arg |-> <<>>])
    /\ ret' = [op |-> "clear", arg |-> <<>>, result |-> FALSE]
    /\ UNCHANGED <<raceVars, configVars, logVars>>

\* ------------------------------------------------------------------------
\* Python values that appear as descriptors, ports and exception arguments
\* ------------------------------------------------------------------------
\* a string is the sequence of its lexical tokens: "tmp:" is <<"tmp", ":">>
Str(toks) == [t |-> "str", v |-> toks]
IntVal(n) == [t |-> "int", v |-> <<n>>]
NoneVal == [t |-> "NoneType", v |-> <<>>]

\* equality of two Python values: same type and same content
PyEq(a, b) == a.t = b.t /\ a.v = b.v

\* truth value of a descriptor: None and '' are false
Truthy(x) == x.t = "str" /\ x.v # <<>>

SchemeToks == {"tmp", "TMP", "couchdb", "mongodb", "null", "file", "store", "bogus"}
HostToks == {"localhost", "down"}

\* str.lower() on a scheme
Lower(tok) == IF tok = "TMP" THEN "tmp" ELSE tok

\* urlparse.urlsplit: SplitResult(scheme, netloc, path, query, fragment).
\* The scheme is the lower-cased text before the first ":", the netloc the
\* host after "//", the path what is left; no descriptor here has a query or
\* a fragment.
urlsplit(url) ==
    LET s == url.v
        hasScheme == Len(s) >= 2 /\ s[1] \in SchemeToks /\ s[2] = ":"
        scheme == IF hasScheme THEN Lower(s[1]) ELSE ""
        rest == IF hasScheme THEN SubSeq(s, 3, Len(s)) ELSE s
        slashes == rest # <<>> /\ rest[1] = "//"
        after == IF slashes THEN Tail(rest) ELSE rest
        hasHost == slashes /\ after # <<>> /\ after[1] \in HostToks
        netloc == IF hasHost THEN <<after[1]>> ELSE <<>>
        path == IF hasHost THEN Tail(after) ELSE after
    IN  [t |-> "SplitResult", v |-> <<scheme, netloc, path, <<>>, <<>>>>]

\* the descriptors callers pass
U_tmp == Str(<<"tmp", ":">>)
U_TMP == Str(<<"TMP", ":">>)
U_couch == Str(<<"couchdb", ":", "//", "localhost", "/sicds">>)
U_couchDown == Str(<<"couchdb", ":", "//", "down", "/sicds">>)
U_mongoDown == Str(<<"mongodb", ":", "//", "down", "/sicds">>)
U_null == Str(<<"null", ":">>)
U_stdout == Str(<<"file", ":", "//", "/dev/stdout">>)
U_badfile == Str(<<"file", ":", "//", "/nodir/log">>)
U_store == Str(<<"store", ":">>)
U_bogus == Str(<<"bogus", ":">>)
U_empty == Str(<<>>)

Urls ==
    { U_tmp, U_TMP, U_couch, U_couchDown, U_mongoDown, U_null, U_stdout,
      U_badfile, U_store, U_bogus, U_empty, NoneVal }

\* ------------------------------------------------------------------------
\* The environment of the constructors
\* ------------------------------------------------------------------------
\* paths open(path, 'a') succeeds on; every other path raises IOError
WritablePaths == { <<"/dev/stdout">> }
\* hosts on which a database answers
UpHosts == { <<"localhost">> }

\* ------------------------------------------------------------------------
\* Registries
\* ------------------------------------------------------------------------
Class(name) == [kind |-> "class", name |-> name]
Reference(field) == [kind |-> "Reference", name |-> field]

STORES ==
    (None :> Class("TmpStore")) @@ ("tmp" :> Class("TmpStore"))
        @@ ("couchdb" :> Class("CouchStore")) @@ ("mongodb" :> Class("MongoStore"))

LOGGERS ==
    (None :> Class("StdOutLogger")) @@ ("null" :> Class("NullLogger"))
        @@ ("file" :> Class("FileLogger")) @@ ("store" :> Reference("store"))

\* an object of the heap: its class and, for a list, its items
Obj(cls) == [cls |-> cls, items |-> <<>>]
List(items) == [cls |-> "list", items |-> items]

\* Class(url): whether the constructor returns, and the exception it raises
\* when it does not
Construct(cls, url) ==
    CASE cls \in {"TmpStore", "NullLogger", "StdOutLogger"} ->
             [ok |-> TRUE, exc |-> ""]
      [] cls = "FileLogger" ->
             IF url.t # "SplitResult" THEN [ok |-> FALSE, exc |-> "AttributeError"]
             ELSE IF url.v[3] \in WritablePaths THEN [ok |-> TRUE, exc |-> ""]
             ELSE [ok |-> FALSE, exc |-> "IOError"]
      [] cls \in {"CouchStore", "MongoStore"} ->
             IF url.t = "SplitResult" /\ url.v[2] \in UpHosts
             THEN [ok |-> TRUE, exc |-> ""]
             ELSE [ok |-> FALSE, exc |-> "BackendError"]

\* ------------------------------------------------------------------------
\* Raw configurations
\* ------------------------------------------------------------------------
DEFAULTKEY == "sicds_default_key"
DEFAULTSUPERKEY == "sicds_default_superkey"
DEFAULTHOST == "localhost"
DEFAULTPORT == 8625

Fields == {"superkey", "store", "host", "port", "keys", "loggers"}

\* a raw configuration: the keys of the mapping (given) and their values; a
\* key that is not given has a filler value that nothing reads
Raw(given, superkey, store, host, port, keys, loggers) ==
    [given |-> given,
     superkey |-> IF "superkey" \in given THEN superkey ELSE "",
     store |-> IF "store" \in given THEN store ELSE NoneVal,
     host |-> IF "host" \in given THEN host ELSE "",
     port |-> IF "port" \in given THEN port ELSE NoneVal,
     keys |-> IF "keys" \in given THEN keys ELSE <<>>,
     loggers |-> IF "loggers" \in given THEN loggers ELSE <<>>]

NoRaw == Raw({}, "", NoneVal, "", NoneVal, <<>>, <<>>)

DEFAULTCONFIG ==
    Raw(Fields, DEFAULTSUPERKEY, U_tmp, DEFAULTHOST, IntVal(DEFAULTPORT),
        <<DEFAULTKEY>>, <<U_stdout>>)

\* the raw configurations tried: every choice of which keys are given (host
\* and port together; with a required key missing, loggers is the only
\* optional key), two store descriptors and three logger lists, and one
\* configuration whose port is not a number
GivenSets ==
    { g \in SUBSET Fields :
        /\ ("host" \in g) <=> ("port" \in g)
        /\ ~({"superkey", "store"} \subseteq g) => g \subseteq {"superkey", "store", "loggers"} }
StoreChoices == { U_tmp, U_bogus }
LoggerLists ==
    { <<U_store>>, <<U_badfile>>, <<U_null, U_store>> }

BadPortConfig ==
    Raw(Fields, "S", U_tmp, "example.org", Str(<<"http">>), <<"k1">>, <<U_null>>)

RawConfigs ==
    { Raw(g, "S", st, "example.org", Str(<<"8000">>), <<"k1">>, lg) :
        g \in GivenSets, st \in StoreChoices, lg \in LoggerLists }
    \cup { DEFAULTCONFIG, BadPortConfig }

\* ------------------------------------------------------------------------
\* _instance_from_url
\* ------------------------------------------------------------------------
\* what a call ends with: a returned object (obj, an index of the heap) or
\* Reference (ref), or a raised exception (exc, excarg); heap is the heap
\* after the call
Returned(h, obj, ref) ==
    [raised |-> FALSE, exc |-> "", excarg |-> NoneVal, obj |-> obj, ref |-> ref,
     heap |-> h]
Raised(h, exc, excarg) ==
    [raised |-> TRUE, exc |-> exc, excarg |-> excarg, obj |-> 0, ref |-> "",
     heap |-> h]

\* a mutant of the rebinding: urlsplit is applied to every descriptor, the
\* empty and the absent one included
SplitAlways(url) == urlsplit(url)

\* url = urlsplit(url) if url else None
SplitOrNone(url) == IF Truthy(url) THEN urlsplit(url) ELSE NoneVal

\* scheme = url.scheme if url else None
SchemeOf(url) == IF url.t = "SplitResult" THEN url.v[1] ELSE None

\* the body of the outer try: the registry lookup, the Reference test and
\* the constructor call. Every class of the registries derives from
\* UrlInitable, so the issubclass branch (which only prints) is not taken.
TryBody(url, urlscheme2type, h) ==
    LET scheme == SchemeOf(url)
    IN  IF scheme \notin DOMAIN urlscheme2type
        THEN Raised(h, "UnknownUrlScheme",
                    IF scheme = None THEN NoneVal ELSE Str(<<scheme>>))
        ELSE LET entry == urlscheme2type[scheme]
             IN  IF entry.kind = "Reference"
                 THEN Returned(h, 0, entry.name)
                 ELSE LET c == Construct(entry.name, url)
                      IN  IF c.ok
                          THEN Returned(Append(h, Obj(entry.name)), Len(h) + 1, "")
                          ELSE Raised(h, c.exc, url)

\* except: raise UrlInitFailure(url), url being the rebound local: whatever
\* the body raised is replaced
CatchAll(u, r) ==
    IF r.raised THEN Raised(r.heap, "UrlInitFailure", u) ELSE r

\* a Reference entry called like a class fails, and the failure is wrapped
CatchAllNoRef(u, r) ==
    IF r.raised \/ r.ref # "" THEN Raised(r.heap, "UrlInitFailure", u) ELSE r

\* the try statement, entered with the rebound url
TryExcept(u, urlscheme2type, h) == CatchAll(u, TryBody(u, urlscheme2type, h))

\* a mutant: no catch-all, the exception of the body reaches the caller
_instance_from_url_leaky(url, urlscheme2type, h) ==
    TryBody(SplitOrNone(url), urlscheme2type, h)

\* a mutant: no isinstance(Class, Reference) test
TryExceptNoRef(u, urlscheme2type, h) ==
    CatchAllNoRef(u, TryBody(u, urlscheme2type, h))

_instance_from_url_noref(url, urlscheme2type, h) ==
    TryExceptNoRef(SplitOrNone(url), urlscheme2type, h)

_instance_from_url(url, urlscheme2type, h) ==
    TryExcept(SplitOrNone(url), urlscheme2type, h)

store_from_url(url, h) == _instance_from_url(url, STORES, h)

logger_from_url(url, h) == _instance_from_url(url, LOGGERS, h)

\* the objects made when config.py is imported: the default of keys ([]),
\* and the default of loggers ([StdOutLogger()])
DefaultKeys == 1
DefaultLogger == 2
DefaultLoggers == 3

ConfigInit ==
    /\ heap = << List(<<>>), Obj("StdOutLogger"), List(<<DefaultLogger>>) >>
    /\ configs = <<>>
    /\ cret = [fn |-> "", url |-> NoneVal, raw |-> NoRaw, raised |-> FALSE,
               exc |-> "", excarg |-> NoneVal, obj |-> 0, ref |-> "",
               before |-> 0]

\* the record of a call: its arguments, how it ended, and the size of the
\* heap when it was made
Outcome(fn, url, raw, r) ==
    [fn |-> fn, url |-> url, raw |-> raw, raised |-> r.raised, exc |-> r.exc,
     excarg |-> r.excarg, obj |-> r.obj, ref |-> r.ref, before |-> Len(heap)]

\* the objects a direct resolver call has constructed so far
Constructed == Len(heap) - DefaultLoggers

StoreFromUrl(url) ==
    /\ Constructed < MaxObjs
    /\ LET r == store_from_url(url, heap)
       IN  /\ heap' = r.heap
           /\ cret' = Outcome("store_from_url", url, NoRaw, r)
    /\ UNCHANGED <<configs, storeVars, raceVars, logVars>>

LoggerFromUrl(url) ==
    /\ Constructed < MaxObjs
    /\ LET r == logger_from_url(url, heap)
       IN  /\ heap' = r.heap
           /\ cret' = Outcome("logger_from_url", url, NoRaw, r)
    /\ UNCHANGED <<configs, storeVars, raceVars, logVars>>

\* ------------------------------------------------------------------------
\* SiCDSConfig: the schema and its resolution
\* ------------------------------------------------------------------------
\* the coercions of the field table
t_uni(x) == x
str(x) == x
int(x) ==
    CASE x.t = "int" -> x
      [] x.t = "str" /\ x.v = <<"8000">> -> IntVal(8000)

\* int(x) raises ValueError for a string that is not a number
IntRaises(x) == ~(x.t = "int" \/ (x.t = "str" /\ x.v = <<"8000">>))

\* a mutant of the required fields: store is not among them
required_superkey_only == <<"superkey">>

\* required = {'superkey': t_uni, 'store': store_from_url}, in the order
\* they are resolved
required == <<"superkey", "store">>

\* optional = {'host': str, 'port': withdefault(int, ''),
\*             'keys': withdefault(many(t_uni), []),
\*             'loggers': withdefault(many(logger_from_url), [StdOutLogger()])}

\* what an optional field is when the mapping does not give it: str() for
\* host, the value handed to withdefault for the others; for keys and loggers
\* that value is the one list object made when the class was defined
DefaultHost == ""
DefaultPort == Str(<<>>)

\* many(logger_from_url)(urls): the resolver applied to each descriptor in
\* turn; the first failure ends it. items holds the index of each object
\* made and 0 where the resolver returned a Reference; refs holds the field
\* each Reference names
ManyDone(h) == [raised |-> FALSE, items |-> <<>>, refs |-> <<>>, heap |-> h]
ManyFailed(h) == [raised |-> TRUE, items |-> <<>>, refs |-> <<>>, heap |-> h]
ManyCons(r, rest) ==
    [rest EXCEPT !.items = <<r.obj>> \o @, !.refs = <<r.ref>> \o @]

RECURSIVE many_logger_from_url(_, _)
ManyStep(urls, r) ==
    IF r.raised THEN ManyFailed(r.heap)
    ELSE ManyCons(r, many_logger_from_url(Tail(urls), r.heap))

many_logger_from_url(urls, h) ==
    IF urls = <<>> THEN ManyDone(h)
    ELSE ManyStep(urls, logger_from_url(Head(urls), h))

\* a Reference among the resolved values is replaced by the instance bound
\* to the field it names
Deref(items, refs, bound) ==
    [i \in 1..Len(items) |-> IF refs[i] # "" THEN bound[refs[i]] ELSE items[i]]

ConfigFailed(h, exc, field) ==
    [raised |-> TRUE, exc |-> exc, excarg |-> Str(<<field>>), heap |-> h,
     config |-> <<>>]

\* the resolved configuration: st is what store_from_url returned, h1 the
\* heap once keys is resolved, h2 the heap once loggers is
Resolved(raw, h, st, h1, h2, refs) ==
    [raised |-> FALSE, exc |-> "", excarg |-> NoneVal, heap |-> h2,
     config |-> << [superkey |-> t_uni(raw.superkey),
                    store |-> st.obj,
                    host |-> IF "host" \in raw.given THEN str(raw.host) ELSE DefaultHost,
                    port |-> IF "port" \in raw.given THEN int(raw.port) ELSE DefaultPort,
                    keys |-> IF "keys" \in raw.given THEN Len(h1) ELSE DefaultKeys,
                    loggers |-> IF "loggers" \in raw.given THEN Len(h2) ELSE DefaultLoggers,
                    raw |-> raw, refs |-> refs, before |-> Len(h)] >>]

\* loggers, given: lg is what many(logger_from_url) returned
WithLoggers(raw, h, st, h1, lg) ==
    IF lg.raised THEN ConfigFailed(h, "ConfigError", "loggers")
    ELSE Resolved(raw, h, st, h1,
                  Append(lg.heap, List(Deref(lg.items, lg.refs, [f \in {"store"} |-> st.obj]))),
                  lg.refs)

\* loggers: absent, the default; given, its resolver
WithKeys(raw, h, st, h1) ==
    IF "loggers" \in raw.given
    THEN WithLoggers(raw, h, st, h1, many_logger_from_url(raw.loggers, h1))
    ELSE Resolved(raw, h, st, h1, h1, <<>>)

\* host, port and keys: absent, the default; given, their resolver
WithStore(raw, h, st) ==
    IF st.raised THEN ConfigFailed(h, "ConfigError", "store")
    ELSE IF "port" \in raw.given /\ IntRaises(raw.port)
    THEN ConfigFailed(h, "ConfigError", "port")
    ELSE WithKeys(raw, h, st,
                  IF "keys" \in raw.given
                  THEN Append(st.heap, List([i \in 1..Len(raw.keys) |-> t_uni(raw.keys[i])]))
                  ELSE st.heap)

\* a mutant of the resolution order: the logger descriptors are resolved
\* first, and a Reference among them is replaced while store is still
\* unbound (0 stands for None); the store is made after them
StoreLast(raw, h, lg, st) ==
    IF st.raised THEN ConfigFailed(h, "ConfigError", "store")
    ELSE Resolved(raw, h, st, st.heap,
                  Append(st.heap, List(Deref(lg.items, lg.refs, [f \in {"store"} |-> 0]))),
                  lg.refs)

LoggersFirst(raw, h, lg) ==
    IF lg.raised THEN ConfigFailed(h, "ConfigError", "loggers")
    ELSE StoreLast(raw, h, lg, store_from_url(raw.store, lg.heap))

SiCDSConfig_loggers_first(raw, h) ==
    IF \E i \in 1..Len(required) : required[i] \notin raw.given
    THEN ConfigFailed(h, "MissingRequiredField", "store")
    ELSE IF "loggers" \in raw.given /\ "keys" \notin raw.given
    THEN LoggersFirst(raw, h, many_logger_from_url(raw.loggers, h))
    ELSE WithStore(raw, h, store_from_url(raw.store, h))

\* Schema.__init__ for SiCDSConfig: the required fields, then the optional
\* ones, each absent or resolved; any failure ends the resolution
SiCDSConfig(raw, h) ==
    IF \E i \in 1..Len(required) : required[i] \notin raw.given
    THEN ConfigFailed(h, "MissingRequiredField",
                      required[CHOOSE i \in 1..Len(required) :
                                   /\ required[i] \notin raw.given
                                   /\ \A k \in 1..(i - 1) : required[k] \in raw.given])
    ELSE WithStore(raw, h, store_from_url(raw.store, h))

\* SiCDSConfig(raw); the objects of a failed resolution are unreachable once
\* the exception leaves, so the heap keeps only those of completed ones
Configure(raw) ==
    /\ Len(configs) < MaxConfigs
    /\ LET r == SiCDSConfig(raw, heap)
       IN  /\ heap' = r.heap
           /\ configs' = configs \o r.config
           /\ cret' = [fn |-> "SiCDSConfig", url |-> NoneVal, raw |-> raw,
                       raised |-> r.raised, exc |-> r.exc, excarg |-> r.excarg,
                       obj |-> 0, ref |-> "", before |-> Len(heap)]
    /\ UNCHANGED <<storeVars, raceVars, logVars>>

\* ------------------------------------------------------------------------
\* Loggers
\* ------------------------------------------------------------------------
LoggerClasses == {"NullLogger", "TmpLogger", "FileLogger", "StdOutLogger"}
FileLoggers == {"FileLogger", "StdOutLogger"}

\* the webob requests logged: remote_addr and body
Requests == { [remote_addr |-> "10.0.0.1", body |-> "[dif]"] }

\* the keyword arguments success() and error() pass to _log
SuccessKw(resp, uniq, dup) == [response |-> resp, unique |-> uniq, duplicate |-> dup]
ErrorKw(error_msg) == [error_msg |-> error_msg]

\* what success() is called with: the response and the ids reported unique
\* and duplicate
SuccessArgs ==
    { SuccessKw("resp", <<"id1">>, <<>>), SuccessKw("resp", <<>>, <<"id1">>) }
ErrorArgs == { ErrorKw("bad key") }

\* entry = dict(timestamp=..., remote_addr=..., req_body=..., success=..., **kw)
Entry(req, success, kw, t) ==
    kw @@ [timestamp |-> t, remote_addr |-> req.remote_addr,
           req_body |-> req.body, success |-> success]

\* '{0}\n'.format(entry): the text of the entry and a newline
Format(entry) == <<entry, "\n">>

LoggerInit ==
    /\ entries = <<>>
    /\ written = [f \in FileLoggers |-> <<>>]
    /\ now = 0
    /\ lret = [logger |-> "", op |-> "", kw |-> <<>>, stored |-> FALSE,
               storeFailed |-> FALSE, raised |-> FALSE, exc |-> ""]

Kept == Len(entries) + Len(written["FileLogger"]) + Len(written["StdOutLogger"])

\* self._store(entry): TmpLogger appends to _entries; FileLogger and
\* StdOutLogger write a line to their file, and file.write raises IOError
\* when the write fails; BaseLogger._store, which NullLogger inherits,
\* raises NotImplementedError
_store(logger, entry, writeOk) ==
    CASE logger = "TmpLogger" ->
             [raised |-> FALSE, exc |-> "", entries |-> Append(entries, entry),
              written |-> written]
      [] logger \in FileLoggers ->
             IF writeOk
             THEN [raised |-> FALSE, exc |-> "", entries |-> entries,
                   written |-> [written EXCEPT ![logger] = Append(@, Format(entry))]]
             ELSE [raised |-> TRUE, exc |-> "IOError", entries |-> entries,
                   written |-> written]
      [] OTHER ->
             [raised |-> TRUE, exc |-> "NotImplementedError", entries |-> entries,
              written |-> written]

\* a mutant of _log: every entry is flagged a success
_log_flag_lost(logger, req, success, kw, writeOk) ==
    _store(logger, Entry(req, TRUE, kw, now), writeOk)

\* BaseLogger._log: builds the entry and hands it to _store; nothing is
\* caught, so what _store raises leaves _log
_log(logger, req, success, kw, writeOk) ==
    _store(logger, Entry(req, success, kw, now), writeOk)

\* a mutant of the override: no logger class overrides success and error
Overrides_none(logger) == FALSE

\* the logger classes that override success and error with pass
Overrides(logger) == logger = "NullLogger"

\* a mutant of the frame: the logger call empties the store's db
LoggerFrame_clears_db ==
    /\ db' = {}
    /\ UNCHANGED <<now, oplog, ret, raceVars, configVars>>

\* what no logger method touches: the clock, the store, the request
\* handlers and the configurations
LoggerFrame == UNCHANGED <<now, storeVars, raceVars, configVars>>

\* logger.success(req, resp, uniq, dup) and logger.error(req, error_msg):
\* NullLogger overrides both with pass; the others call _log, and what _log
\* raises reaches the caller
LogCall(logger, op, req, kw, writeOk) ==
    /\ Kept < MaxEntries
    /\ IF Overrides(logger)
       THEN /\ lret' = [logger |-> logger, op |-> op, kw |-> kw, stored |-> FALSE,
                        storeFailed |-> FALSE, raised |-> FALSE, exc |-> ""]
            /\ UNCHANGED <<entries, written>>
       ELSE LET r == _log(logger, req, op = "success", kw, writeOk)
            IN  /\ entries' = r.entries
                /\ written' = r.written
                /\ lret' = [logger |-> logger, op |-> op, kw |-> kw, stored |-> TRUE,
                            storeFailed |-> logger \in FileLoggers /\ ~writeOk,
                            raised |-> r.raised, exc |-> r.exc]
    /\ LoggerFrame

Success(logger, req, kw, writeOk) == LogCall(logger, "success", req, kw, writeOk)

Error(logger, req, kw, writeOk) == LogCall(logger, "error", req, kw, writeOk)

\* time passes
Tick ==
    /\ now < MaxTime
    /\ now' = now + 1
    /\ UNCHANGED <<entries, written, lret, storeVars, raceVars, configVars>>

\* ------------------------------------------------------------------------
\* Specifications
\* ------------------------------------------------------------------------
\* a store on which one add, of a set of one dif, has been made
TmpDifStorePopulated ==
    \E difs \in Submitted :
        /\ db = add({}, difs)
        /\ oplog = <<[op |-> "add", arg |-> difs]>>
        /\ ret = [op |-> "add", arg |-> difs, result |-> FALSE]

\* the loggers start beside a store that already holds a record
InitAudit ==
    /\ TmpDifStorePopulated
    /\ RaceInit
    /\ ConfigInit
    /\ LoggerInit

Init ==
    /\ TmpDifStoreInit
    /\ RaceInit
    /\ ConfigInit
    /\ LoggerInit

NextStore ==
    \/ \E difs \in AttrSets : Contains(difs)
    \/ \E difs \in AttrSets : Add(difs)
    \/ Clear

NextRace ==
    \/ \E c \in Callers, difs \in AttrSets : CallerCheck(c, difs)
    \/ \E c \in Callers : CallerInsert(c)

NextClearRace ==
    \/ \E c \in Callers, difs \in Submitted : CallerCheck(c, difs)
    \/ \E c \in Callers : CallerInsert(c)
    \/ AdminClear

NextResolve ==
    \/ \E url \in Urls : StoreFromUrl(url)
    \/ \E url \in Urls : LoggerFromUrl(url)

NextConfig ==
    \E raw \in RawConfigs : Configure(raw)

NextLog ==
    \/ \E logger \in LoggerClasses, req \in Requests, kw \in SuccessArgs, ok \in BOOLEAN :
          Success(logger, req, kw, ok)
    \/ \E logger \in LoggerClasses, req \in Requests, kw \in ErrorArgs, ok \in BOOLEAN :
          Error(logger, req, kw, ok)
    \/ Tick

Next ==
    \/ NextStore
    \/ NextRace
    \/ AdminClear
    \/ NextResolve
    \/ NextConfig
    \/ NextLog

Spec == Init /\ [][Next]_vars

\* the store driven by one client at a time
SpecStore == Init /\ [][NextStore]_vars

\* the store shared by concurrent request handlers
SpecRace == Init /\ [][NextRace]_vars

\* the store shared by concurrent request handlers and cleared meanwhile
SpecClearRace == Init /\ [][NextClearRace]_vars

\* direct calls of store_from_url and logger_from_url
SpecResolve == Init /\ [][NextResolve]_vars

\* configurations resolved one after the other in one process
SpecConfig == Init /\ [][NextConfig]_vars

\* the loggers recording request outcomes
SpecLog == Init /\ [][NextLog]_vars

\* the loggers recording request outcomes beside a store that holds a record
SpecAudit == InitAudit /\ [][NextLog]_vars

\* ------------------------------------------------------------------------
\* Properties of the duplicate store
\* ------------------------------------------------------------------------
Last(s) == s[Len(s)]

\* an add of the same canonical form is in the log with no clear after it
RecordedSinceClear(difs) ==
    \E i \in 1..Len(oplog) :
        /\ oplog[i].op = "add"
        /\ _sleep(oplog[i].arg) = _sleep(difs)
        /\ \A j \in (i+1)..Len(oplog) : oplog[j].op # "clear"

\* C1: for every Attribute Set A, contains(A) is true exactly when add was
\* called with a set of the same canonical form since the store was created
\* or last cleared, and a contains call returns that answer; so it is false
\* before any add(A) and true right after add(A).
C1_ContainsIffRecorded ==
    /\ \A difs \in AttrSets : __contains__(db, difs) <=> RecordedSinceClear(difs)
    /\ ret.op = "contains" => (ret.result <=> RecordedSinceClear(ret.arg))

\* clear(), add(A) of a two-dif set, then contains(A) answered true
C1_Witness ==
    /\ Len(oplog) = 2
    /\ oplog[1].op = "clear"
    /\ oplog[2].op = "add"
    /\ Len(oplog[2].arg) = 2
    /\ ret = [op |-> "contains", arg |-> oplog[2].arg, result |-> TRUE]

\* C2: when N handlers each perform the contains test followed by add for
\* the same Attribute Set on one shared store, exactly one of them observes
\* "not previously present", whatever the interleaving.
C2_ExactlyOneObservesNew ==
    \A difs \in AttrSets :
        LET same == { c \in Callers : pc[c] = "done" /\ _sleep(carg[c]) = _sleep(difs) }
        IN  ((\A c \in Callers : pc[c] = "done") /\ same # {})
                => Cardinality({ c \in same : ~seen[c] }) = 1

\* C3: add is idempotent: an add(A) made right after an add(A) leaves the
\* contains answer of every Attribute Set as it was.
C3_AddIdempotent ==
    [][\A difs \in AttrSets :
          (Add(difs) /\ oplog # <<>> /\ Last(oplog) = [op |-> "add", arg |-> difs])
              => \A b \in AttrSets : __contains__(db', b) <=> __contains__(db, b)]_vars

\* the same two-dif Attribute Set was added twice in a row
C3_Witness ==
    /\ Len(oplog) = 2
    /\ oplog[1].op = "add"
    /\ Len(oplog[1].arg) = 2
    /\ oplog[2] = oplog[1]

\* C4: after clear(), contains is false for every Attribute Set, the ones
\* added before the clear included.
C4_ClearForgetsAll ==
    (oplog # <<>> /\ Last(oplog).op = "clear")
        => /\ \A difs \in AttrSets : ~__contains__(db, difs)
           /\ ret.op = "contains" => ret.result = FALSE

\* a set was added, the store cleared, and contains of the set answered
\* false
C4_Witness ==
    /\ Len(oplog) = 2
    /\ oplog[1].op = "add"
    /\ oplog[2].op = "clear"
    /\ ret = [op |-> "contains", arg |-> oplog[1].arg, result |-> FALSE]

\* ------------------------------------------------------------------------
\* Properties of the component resolution
\* ------------------------------------------------------------------------
DirectCall == cret.fn \in {"store_from_url", "logger_from_url"}

RegistryOf(fn) == IF fn = "store_from_url" THEN STORES ELSE LOGGERS

\* the last direct call named a scheme its registry does not have
UnknownSchemeCall ==
    /\ DirectCall
    /\ SchemeOf(SplitOrNone(cret.url)) \notin DOMAIN RegistryOf(cret.fn)

\* the last direct call named a registered class whose constructor raised
FailedConstructorCall ==
    /\ DirectCall
    /\ LET u == SplitOrNone(cret.url)
           reg == RegistryOf(cret.fn)
       IN  /\ SchemeOf(u) \in DOMAIN reg
           /\ reg[SchemeOf(u)].kind = "class"
           /\ ~Construct(reg[SchemeOf(u)].name, u).ok

\* C5: resolving a descriptor whose scheme is not in the registry fails with
\* UnknownUrlScheme carrying the scheme string, and constructs no component.
C5_UnknownSchemeRaised ==
    UnknownSchemeCall =>
        /\ cret.raised
        /\ cret.exc = "UnknownUrlScheme"
        /\ PyEq(cret.excarg, Str(<<SchemeOf(SplitOrNone(cret.url))>>))
        /\ Len(heap) = cret.before

Items(list) == heap[list].items

\* the configuration gave loggers = ["store:"]
LoggersAreStore(c) ==
    /\ "loggers" \in c.raw.given
    /\ c.raw.loggers = <<U_store>>

\* C7: resolving the logger descriptor "store:" constructs nothing and
\* returns the Reference to 'store'; a configuration with loggers =
\* ["store:"] has a logger list whose one element is the very instance
\* bound to store, and its resolution constructed no component but the
\* store.
C7_StoreLoggerIsTheStore ==
    /\ LET r == logger_from_url(U_store, heap)
       IN  ~r.raised /\ r.ref = "store" /\ r.obj = 0 /\ r.heap = heap
    /\ \A i \in 1..Len(configs) :
          LET c == configs[i]
          IN  LoggersAreStore(c) =>
                  /\ c.refs = <<"store">>
                  /\ Items(c.loggers) = <<c.store>>
                  /\ \A k \in (c.before + 1)..c.loggers :
                        k = c.store \/ heap[k].cls = "list"

\* a configuration with loggers = ["store:"] was resolved after another one
C7_Witness ==
    /\ Len(configs) = 2
    /\ LoggersAreStore(configs[2])
    /\ heap[configs[2].store].cls = "TmpStore"

\* C8: a raw configuration with only superkey and store resolves, with host
\* "localhost", port 8625, the one default access key and one
\* standard-output logger.
C8_DefaultsOfOmittedFields ==
    (/\ cret.fn = "SiCDSConfig"
     /\ cret.raw.given = {"superkey", "store"}
     /\ PyEq(cret.raw.store, U_tmp))
        => /\ ~cret.raised
           /\ LET c == Last(configs)
              IN  /\ c.host = DEFAULTHOST
                  /\ PyEq(c.port, IntVal(DEFAULTPORT))
                  /\ Items(c.keys) = <<DEFAULTKEY>>
                  /\ Len(Items(c.loggers)) = 1
                  /\ heap[Items(c.loggers)[1]].cls = "StdOutLogger"

\* C9: two configurations that both omit loggers, or both omit keys, hold
\* distinct default objects: neither the default list nor a default logger
\* in it is shared between them.
C9_DefaultsNotShared ==
    \A i \in 1..Len(configs), j \in 1..Len(configs) :
        i < j =>
            LET a == configs[i]
                b == configs[j]
            IN  /\ ("loggers" \notin a.raw.given /\ "loggers" \notin b.raw.given)
                      => /\ a.loggers # b.loggers
                         /\ \A x \in 1..Len(Items(a.loggers)), y \in 1..Len(Items(b.loggers)) :
                               Items(a.loggers)[x] # Items(b.loggers)[y]
                /\ ("keys" \notin a.raw.given /\ "keys" \notin b.raw.given)
                      => a.keys # b.keys

\* ------------------------------------------------------------------------
\* Properties of the loggers
\* ------------------------------------------------------------------------
\* C10: when the persistence step _store fails while success or error is
\* recording a request, the failure is not raised to the caller of
\* success / error.
C10_StoreFailureNotRaised ==
    (lret.op \in {"success", "error"} /\ lret.storeFailed) => ~lret.raised

\* ------------------------------------------------------------------------
\* Properties of the default registry entry
\* ------------------------------------------------------------------------
\* the last direct call was given an empty or absent descriptor
DefaultSchemeCall == DirectCall /\ ~Truthy(cret.url)

\* C11: with an empty or absent descriptor the registry's entry for None is
\* constructed: store_from_url returns a new in-memory store,
\* logger_from_url a new standard-output logger, and neither fails.
C11_EmptyDescriptorUsesDefault ==
    DefaultSchemeCall =>
        /\ ~cret.raised
        /\ cret.ref = ""
        /\ cret.obj = Len(heap)
        /\ Len(heap) = cret.before + 1
        /\ heap[cret.obj].cls =
              IF cret.fn = "store_from_url" THEN "TmpStore" ELSE "StdOutLogger"

\* store_from_url('') returned after logger_from_url(None) had returned
C11_Witness ==
    /\ DefaultSchemeCall
    /\ cret.fn = "store_from_url"
    /\ PyEq(cret.url, U_empty)
    /\ cret.obj = DefaultLoggers + 2
    /\ heap[cret.obj - 1].cls = "StdOutLogger"

\* ------------------------------------------------------------------------
\* Properties of failed resolutions
\* ------------------------------------------------------------------------
\* the required fields the mapping does not give
MissingRequired(raw) == { f \in {"superkey", "store"} : f \notin raw.given }

\* the given fields whose resolver fails on the value given
FailingResolvers(raw, h) ==
    { f \in raw.given :
        \/ f = "store" /\ store_from_url(raw.store, h).raised
        \/ f = "port" /\ IntRaises(raw.port)
        \/ f = "loggers" /\ \E i \in 1..Len(raw.loggers) :
                                logger_from_url(raw.loggers[i], h).raised }

Names(excarg, fields) == \E f \in fields : PyEq(excarg, Str(<<f>>))

\* what a step that resolves raw must do
AllOrNothing(raw) ==
    /\ (MissingRequired(raw) # {} /\ FailingResolvers(raw, heap) = {}) =>
          /\ cret'.raised
          /\ cret'.exc = "MissingRequiredField"
          /\ Names(cret'.excarg, MissingRequired(raw))
    /\ (MissingRequired(raw) = {} /\ FailingResolvers(raw, heap) # {}) =>
          /\ cret'.raised
          /\ cret'.exc = "ConfigError"
          /\ Names(cret'.excarg, FailingResolvers(raw, heap))
    /\ (MissingRequired(raw) # {} /\ FailingResolvers(raw, heap) # {}) =>
          /\ cret'.raised
          /\ \/ /\ cret'.exc = "MissingRequiredField"
                /\ Names(cret'.excarg, MissingRequired(raw))
             \/ /\ cret'.exc = "ConfigError"
                /\ Names(cret'.excarg, FailingResolvers(raw, heap))
    /\ cret'.raised => Len(configs') = Len(configs)
    /\ (MissingRequired(raw) = {} /\ FailingResolvers(raw, heap) = {}) =>
          /\ ~cret'.raised
          /\ Len(configs') = Len(configs) + 1
          /\ Last(configs').raw.given = raw.given

\* C12: resolution is all-or-nothing: a mapping without superkey or without
\* store fails with MissingRequiredField, a mapping one of whose resolvers
\* fails with ConfigError naming that field, and a failed resolution adds no
\* configuration, while one with neither defect adds exactly one.
C12_AllOrNothing ==
    [][cret'.fn = "SiCDSConfig" => AllOrNothing(cret'.raw)]_vars

\* a resolution failed on a logger descriptor after another had completed,
\* and the completed one is still the only configuration
C12_Witness ==
    /\ cret.fn = "SiCDSConfig"
    /\ cret.raised
    /\ cret.exc = "ConfigError"
    /\ PyEq(cret.excarg, Str(<<"loggers">>))
    /\ MissingRequired(cret.raw) = {}
    /\ Len(configs) = 1

\* ------------------------------------------------------------------------
\* Properties of the resolution order
\* ------------------------------------------------------------------------
StoreClasses == {"TmpStore", "CouchStore", "MongoStore"}

\* the configuration gave logger descriptors
LoggersGiven(c) == "loggers" \in c.raw.given /\ Len(c.raw.loggers) > 0

\* C13: in every resolution the store is made before any logger descriptor
\* is resolved: the store is the first object the resolution makes, every
\* logger it constructs is made after it, and every Reference to 'store'
\* among the loggers is replaced by that store, a constructed instance.
C13_StoreBeforeLoggers ==
    \A k \in 1..Len(configs) :
        LoggersGiven(configs[k]) =>
            /\ configs[k].store = configs[k].before + 1
            /\ heap[configs[k].store].cls \in StoreClasses
            /\ Len(Items(configs[k].loggers)) = Len(configs[k].raw.loggers)
            /\ \A i \in 1..Len(configs[k].refs) :
                  IF configs[k].refs[i] = "store"
                  THEN Items(configs[k].loggers)[i] = configs[k].store
                  ELSE /\ Items(configs[k].loggers)[i] > configs[k].store
                       /\ heap[Items(configs[k].loggers)[i]].cls \in LoggerClasses

\* a configuration whose loggers are a constructed logger followed by the
\* Reference to 'store' was resolved
C13_Witness ==
    \E k \in 1..Len(configs) :
        /\ LoggersGiven(configs[k])
        /\ configs[k].refs = <<"", "store">>
        /\ Items(configs[k].loggers) = <<configs[k].store + 1, configs[k].store>>

\* ------------------------------------------------------------------------
\* Properties of the canonical form
\* ------------------------------------------------------------------------
Occurrences(difs, d) == Cardinality({ i \in 1..Len(difs) : difs[i] = d })

\* B holds the Attributes of A in a different order
Reordered(A, B) ==
    /\ Len(A) = Len(B)
    /\ \A d \in Difs : Occurrences(A, d) = Occurrences(B, d)
    /\ A # B

\* C14: the canonical form keeps the order of the Attributes: once add(A)
\* is the one call made on an empty store, contains(A) is true and
\* contains(B) is false for every B holding the same Attributes in a
\* different order.
C14_OrderIsPartOfIdentity ==
    (Len(oplog) = 1 /\ oplog[1].op = "add") =>
        /\ __contains__(db, oplog[1].arg)
        /\ \A B \in AttrSets :
              Reordered(oplog[1].arg, B) =>
                  /\ ~__contains__(db, B)
                  /\ (ret.op = "contains" /\ ret.arg = B) => ~ret.result

\* add(A) of two different difs, then contains of the two in the other
\* order answered false
C14_Witness ==
    /\ Len(oplog) = 1
    /\ oplog[1].op = "add"
    /\ Reordered(oplog[1].arg, ret.arg)
    /\ ret.op = "contains"
    /\ ~ret.result

\* ------------------------------------------------------------------------
\* Properties of the loggers
\* ------------------------------------------------------------------------
\* the step is a success or error call on a logger
IsLogCall ==
    /\ now' = now
    /\ lret'.logger \in LoggerClasses
    /\ lret'.op \in {"success", "error"}

\* C15: a success or error call on a NullLogger, TmpLogger, FileLogger or
\* StdOutLogger leaves the store's set of recorded tuples as it was: every
\* contains answers after the call what it answered before it.
C15_LoggersLeaveStoreAlone ==
    [][IsLogCall =>
          /\ db' = db
          /\ \A difs \in AttrSets : __contains__(db', difs) <=> __contains__(db, difs)
      ]_vars

\* a TmpLogger call has stored an entry beside a store that holds a record
C15_Witness ==
    /\ lret.logger = "TmpLogger"
    /\ Len(entries) = 1
    /\ \E difs \in AttrSets : Len(difs) = 1 /\ db = {_sleep(difs)}

\* the step is a success or error call on a TmpLogger
IsTmpLoggerCall == IsLogCall /\ lret'.logger = "TmpLogger"

\* e is the entry of a call op made with the keyword arguments kw
EntryOfCall(e, op, kw) ==
    /\ e.timestamp = now
    /\ \E req \in Requests : e.remote_addr = req.remote_addr /\ e.req_body = req.body
    /\ IF op = "success"
       THEN /\ e.success
            /\ DOMAIN e = {"timestamp", "remote_addr", "req_body", "success",
                           "response", "unique", "duplicate"}
            /\ e.response = kw.response
            /\ e.unique = kw.unique
            /\ e.duplicate = kw.duplicate
       ELSE /\ ~e.success
            /\ DOMAIN e = {"timestamp", "remote_addr", "req_body", "success",
                           "error_msg"}
            /\ e.error_msg = kw.error_msg

\* C16: the entry list of a TmpLogger only grows at its end, by exactly one
\* entry per success or error call and by nothing else: a success call
\* appends an entry flagged success that carries the response and the
\* unique and duplicate ids, an error call one flagged failure that carries
\* the error message, and the entries already there stay as they are.
C16_TmpLoggerAppendsOnePerCall ==
    [][/\ Len(entries') >= Len(entries)
       /\ SubSeq(entries', 1, Len(entries)) = entries
       /\ IF IsTmpLoggerCall
          THEN /\ Len(entries') = Len(entries) + 1
               /\ EntryOfCall(Last(entries'), lret'.op, lret'.kw)
          ELSE Len(entries') = Len(entries)
      ]_vars

\* an error call and then a success call were made on the TmpLogger
C16_Witness ==
    /\ lret.logger = "TmpLogger"
    /\ lret.op = "success"
    /\ Len(entries) = 2
    /\ ~entries[1].success
    /\ entries[2].success
    /\ entries[2].unique = lret.kw.unique

\* the step is a success or error call on a NullLogger
IsNullLoggerCall == IsLogCall /\ lret'.logger = "NullLogger"

\* C18: a success or error call on a NullLogger does not reach _store,
\* raises nothing, and leaves the entries, the files, the clock and the
\* store as they were, whatever its arguments.
C18_NullLoggerDiscards ==
    [][IsNullLoggerCall =>
          /\ ~lret'.stored
          /\ ~lret'.raised
          /\ lret'.exc = ""
          /\ Len(entries') = Len(entries)
          /\ \A f \in FileLoggers : Len(written'[f]) = Len(written[f])
          /\ UNCHANGED <<entries, written, now, db>>
      ]_vars

\* an error call was made on the NullLogger after the TmpLogger had stored
\* an entry
C18_Witness ==
    /\ lret.logger = "NullLogger"
    /\ lret.op = "error"
    /\ ~lret.stored
    /\ Len(entries) = 1

\* ------------------------------------------------------------------------
\* Properties of clear under concurrency
\* ------------------------------------------------------------------------
\* the canonical tuples added after the last clear
AddedSinceLastClear ==
    { _sleep(oplog[i].arg) :
        i \in { k \in 1..Len(oplog) :
                  /\ oplog[k].op = "add"
                  /\ \A j \in (k + 1)..Len(oplog) : oplog[j].op # "clear" } }

\* the canonical tuples recorded when the clear at position k began
RecordedBeforeClear(k) ==
    { _sleep(oplog[i].arg) : i \in { j \in 1..(k - 1) : oplog[j].op = "add" } }

\* C17: clear is atomic for the handlers running beside it: in every state
\* of every interleaving the store holds exactly the tuples added after the
\* last clear, so of the tuples recorded before a clear it holds none but
\* those added again, and a contains test made after the clear answers
\* accordingly.
C17_NoPartialClear ==
    /\ db = AddedSinceLastClear
    /\ \A k \in 1..Len(oplog) :
          oplog[k].op = "clear" =>
              (db \cap RecordedBeforeClear(k)) \subseteq AddedSinceLastClear
    /\ ret.op = "contains" => (ret.result <=> _sleep(ret.arg) \in AddedSinceLastClear)

\* two handlers recorded different sets, the store was cleared, and a third
\* handler's test for one of them answered false
C17_Witness ==
    /\ Len(oplog) = 3
    /\ oplog[1].op = "add"
    /\ oplog[2].op = "add"
    /\ oplog[1].arg # oplog[2].arg
    /\ oplog[3].op = "clear"
    /\ ret = [op |-> "contains", arg |-> oplog[1].arg, result |-> FALSE]
    /\ \E c \in Callers : pc[c] = "checked" /\ ~seen[c] /\ carg[c] = oplog[1].arg

\* ------------------------------------------------------------------------
\* Frame properties of the store
\* ------------------------------------------------------------------------
\* C19: contains(A) leaves the recorded set as it was, and add(A) changes
\* the contains answer of no Attribute Set whose canonical form differs
\* from that of A: what was recorded stays recorded, and nothing but A
\* becomes recorded.
C19_ContainsAndAddFrame ==
    [][/\ (ret'.op = "contains" /\ oplog' = oplog) => db' = db
       /\ (ret'.op = "add" /\ Len(oplog') = Len(oplog) + 1) =>
             /\ __contains__(db', ret'.arg)
             /\ \A B \in AttrSets :
                   _sleep(B) # _sleep(ret'.arg) =>
                       (__contains__(db', B) <=> __contains__(db, B))
      ]_vars

\* a second, different set was added to a store holding one, and the first
\* is still answered true
C19_Witness ==
    /\ Len(oplog) = 2
    /\ oplog[1].op = "add"
    /\ oplog[2].op = "add"
    /\ oplog[1].arg # oplog[2].arg
    /\ ret = [op |-> "contains", arg |-> oplog[1].arg, result |-> TRUE]

====
